---- MODULE Spec2Model ----
(***************************************************************************)
(* Elevator example (ElevatorNum, ElevatorDoor, ElevatorMove coupled by    *)
(* elevatorSystem) as a timed state machine.  Time is counted in           *)
(* hundredths of a second, so the time advances 0.11 and 2.0 of the        *)
(* source are 11 and 200.  One step of the model is one instant of the     *)
(* simulation: the imminent models emit their output, the couplings copy   *)
(* the messages to the input ports, and every model that is imminent or    *)
(* has input makes its internal, external or confluent transition.         *)
(***************************************************************************)
EXTENDS Integers, Sequences, FiniteSets, TLC

\* ------------------------------------------------------------------ bounds
MaxBag == 1
MaxPolls == 2
MaxDigits == 4
MaxTargets == 2
MaxStatus == 2
EnvOffset == 5

\* ------------------------------------------------------- program constants
NumSigma == 11
DoorSigma == 11
MoveSigma == 200
Infinity == 100000
QuadLow == 400
QuadHigh == 600
BuzzerOn == 2
GreenRedLightTime == 6
YellowLightTime == 2
LockSigma == 10
GarageDoorSigma == 10
LockLow == 400
LockHigh == 600
FrozenLimit == 24

Floors == 1..4
AxisValues == {300, 500, 700}

\* num, door, move: the state of the three atomic models; tn: the time left to
\* each one's next scheduled transition; ports: the messages of the last
\* instant; fired: the kind of transition each model made at the last instant;
\* here: history of the selection (see SelectedHere).
VARIABLES num, door, move, tn, ports, fired, here,
          trafficLight, tlsim,
          garageLock, garageDoor, gsim

vars == <<num, door, move, tn, ports, fired, here, trafficLight, tlsim,
          garageLock, garageDoor, gsim>>

\* The elevator system and the traffic light system are separate programs.
elevatorVars == <<num, door, move, tn, ports, fired, here>>

trafficVars == <<trafficLight, tlsim>>

garageVars == <<garageLock, garageDoor, gsim>>

\* ------------------------------------------------------------ helpers
Last(bag) == bag[Len(bag)]

Min2(a, b) == IF a <= b THEN a ELSE b

\* All bags (message sequences) over S of length at most n.
BagsOf(S, n) == UNION {[1..k -> S] : k \in 0..n}

\* ------------------------------------------------- ElevatorNum (FloorSelector)
\* ElevatorNumState() with the constructor's state.sigma = 0.11.
ElevatorNumState == [sigma |-> NumSigma, xCoordinate |-> 0, yCoordinate |-> 0,
                     floorNum |-> 1, doorStatus |-> FALSE, currentStatus |-> <<>>]

\* The quadrant chain without the test that the floor differs from the stored one.
NumQuadrant_NoRepeatTest(s) ==
    IF s.xCoordinate < QuadLow /\ s.yCoordinate > QuadHigh THEN 1
    ELSE IF s.xCoordinate > QuadHigh /\ s.yCoordinate > QuadHigh THEN 2
    ELSE IF s.xCoordinate < QuadLow /\ s.yCoordinate < QuadLow THEN 3
    ELSE IF s.xCoordinate > QuadHigh /\ s.yCoordinate < QuadLow THEN 4
    ELSE 0

\* The quadrant chain with the borders 400 and 600 counted as inside.
NumQuadrant_ClosedBand(s) ==
    IF s.xCoordinate <= QuadLow /\ s.yCoordinate >= QuadHigh /\ s.floorNum # 1 THEN 1
    ELSE IF s.xCoordinate >= QuadHigh /\ s.yCoordinate >= QuadHigh /\ s.floorNum # 2 THEN 2
    ELSE IF s.xCoordinate <= QuadLow /\ s.yCoordinate <= QuadLow /\ s.floorNum # 3 THEN 3
    ELSE IF s.xCoordinate >= QuadHigh /\ s.yCoordinate <= QuadLow /\ s.floorNum # 4 THEN 4
    ELSE 0

\* The quadrant chain of the confirm branch: the first branch whose
\* coordinates match and whose floor differs from the stored one.
NumQuadrant(s) ==
    IF s.xCoordinate < QuadLow /\ s.yCoordinate > QuadHigh /\ s.floorNum # 1 THEN 1
    ELSE IF s.xCoordinate > QuadHigh /\ s.yCoordinate > QuadHigh /\ s.floorNum # 2 THEN 2
    ELSE IF s.xCoordinate < QuadLow /\ s.yCoordinate < QuadLow /\ s.floorNum # 3 THEN 3
    ELSE IF s.xCoordinate > QuadHigh /\ s.yCoordinate < QuadLow /\ s.floorNum # 4 THEN 4
    ELSE 0

\* The quadrant of the stored coordinates (0 when inside none), whatever the
\* floor already selected.
AxisQuadrant(s) ==
    IF s.xCoordinate < QuadLow /\ s.yCoordinate > QuadHigh THEN 1
    ELSE IF s.xCoordinate > QuadHigh /\ s.yCoordinate > QuadHigh THEN 2
    ELSE IF s.xCoordinate < QuadLow /\ s.yCoordinate < QuadLow THEN 3
    ELSE IF s.xCoordinate > QuadHigh /\ s.yCoordinate < QuadLow THEN 4
    ELSE 0

\* std::string text appended to currentStatus for a floor ("1 " .. "4 ").
FloorText == <<"1", "2", "3", "4">>

\* The loop body without the test of doorStatus.
NumConfirm_IgnoresLock(s, i) ==
    IF i = FALSE /\ NumQuadrant(s) # 0
    THEN [s EXCEPT !.floorNum = NumQuadrant(s),
                   !.currentStatus = Append(@, FloorText[NumQuadrant(s)])]
    ELSE s

\* The loop body logging nothing for a message received while locked.
NumConfirm_DropUnlogged(s, i) ==
    IF s.doorStatus = FALSE
    THEN IF i = FALSE /\ NumQuadrant(s) # 0
         THEN [s EXCEPT !.floorNum = NumQuadrant(s),
                        !.currentStatus = Append(@, FloorText[NumQuadrant(s)])]
         ELSE s
    ELSE s

\* The loop body taking the message 1 for the pressed button.
NumConfirm_ActiveHigh(s, i) ==
    IF s.doorStatus = FALSE
    THEN IF i = TRUE /\ NumQuadrant(s) # 0
         THEN [s EXCEPT !.floorNum = NumQuadrant(s),
                        !.currentStatus = Append(@, FloorText[NumQuadrant(s)])]
         ELSE s
    ELSE [s EXCEPT !.currentStatus = Append(@, "DC")]

\* Body of the loop over inInput for one message i (i = FALSE is the pressed button).
NumConfirm(s, i) ==
    IF s.doorStatus = FALSE
    THEN IF i = FALSE /\ NumQuadrant(s) # 0
         THEN [s EXCEPT !.floorNum = NumQuadrant(s),
                        !.currentStatus = Append(@, FloorText[NumQuadrant(s)])]
         ELSE s
    ELSE [s EXCEPT !.currentStatus = Append(@, "DC")]

RECURSIVE NumConfirmLoop(_, _)
NumConfirmLoop(s, bag) ==
    IF bag = <<>> THEN s ELSE NumConfirmLoop(NumConfirm(s, Head(bag)), Tail(bag))

ElevatorNum_internalTransition(s) == s

\* The external transition storing the coordinates only while unlocked.
ElevatorNum_externalTransition_AxesWhenUnlocked(s, in) ==
    LET s1 == NumConfirmLoop(s, in.inInput)
        s2 == IF in.inX # <<>> /\ s.doorStatus = FALSE
              THEN [s1 EXCEPT !.xCoordinate = Last(in.inX)] ELSE s1
        s3 == IF in.inY # <<>> /\ s.doorStatus = FALSE
              THEN [s2 EXCEPT !.yCoordinate = Last(in.inY)] ELSE s2
    IN  IF in.inDoorStatus # <<>>
        THEN [s3 EXCEPT !.doorStatus = Last(in.inDoorStatus)] ELSE s3

\* The external transition storing the coordinates and the lock flag before it
\* goes through inInput.
ElevatorNum_externalTransition_StoreFirst(s, in) ==
    LET s1 == IF in.inX # <<>> THEN [s EXCEPT !.xCoordinate = Last(in.inX)] ELSE s
        s2 == IF in.inY # <<>> THEN [s1 EXCEPT !.yCoordinate = Last(in.inY)] ELSE s1
        s3 == IF in.inDoorStatus # <<>>
              THEN [s2 EXCEPT !.doorStatus = Last(in.inDoorStatus)] ELSE s2
    IN  NumConfirmLoop(s3, in.inInput)

\* in = [inInput, inX, inY, inDoorStatus], each a bag.
ElevatorNum_externalTransition(s, in) ==
    LET s1 == NumConfirmLoop(s, in.inInput)
        s2 == IF in.inX # <<>> THEN [s1 EXCEPT !.xCoordinate = Last(in.inX)] ELSE s1
        s3 == IF in.inY # <<>> THEN [s2 EXCEPT !.yCoordinate = Last(in.inY)] ELSE s2
    IN  IF in.inDoorStatus # <<>>
        THEN [s3 EXCEPT !.doorStatus = Last(in.inDoorStatus)] ELSE s3

\* The output emitting the floor only while unlocked.
ElevatorNum_output_WhenUnlocked(s) ==
    IF s.doorStatus = FALSE THEN [out |-> <<s.floorNum>>] ELSE [out |-> <<>>]

ElevatorNum_output(s) == [out |-> <<s.floorNum>>]

ElevatorNum_timeAdvance(s) == s.sigma

\* ------------------------------------------------ ElevatorDoor (DoorInterlock)
ElevatorDoorState == [sigma |-> DoorSigma, floorNum |-> 1, floorNumToMove |-> 1,
                      lightOn |-> FALSE]

\* The internal transition re-arming 0.11 also for a closed door.
ElevatorDoor_internalTransition_NeverPassive(s) == [s EXCEPT !.sigma = DoorSigma]

\* The internal transition going passive whatever lightOn is.
ElevatorDoor_internalTransition_AlwaysPassive(s) == [s EXCEPT !.sigma = Infinity]

ElevatorDoor_internalTransition(s) ==
    IF s.lightOn = TRUE THEN [s EXCEPT !.sigma = Infinity]
    ELSE [s EXCEPT !.sigma = DoorSigma]

\* The loop body taking the requested floor as the floor reached.
DoorRequest_MovesFloor(s, x) ==
    IF x = s.floorNum
    THEN [s EXCEPT !.lightOn = FALSE, !.sigma = DoorSigma]
    ELSE [s EXCEPT !.lightOn = TRUE, !.floorNumToMove = x, !.floorNum = x]

\* The loop body with the else branch not storing the request.
DoorRequest_TargetNotStored(s, x) ==
    IF x = s.floorNum
    THEN [s EXCEPT !.lightOn = FALSE, !.sigma = DoorSigma]
    ELSE [s EXCEPT !.lightOn = TRUE]

\* The loop body with the equal branch not restarting the 0.11 time advance.
DoorRequest_NoRestart(s, x) ==
    IF x = s.floorNum
    THEN [s EXCEPT !.lightOn = FALSE]
    ELSE [s EXCEPT !.lightOn = TRUE, !.floorNumToMove = x]

\* Body of the loop over inElevatorNum for one message x.
DoorRequest(s, x) ==
    IF x = s.floorNum
    THEN [s EXCEPT !.lightOn = FALSE, !.sigma = DoorSigma]
    ELSE [s EXCEPT !.lightOn = TRUE, !.floorNumToMove = x]

RECURSIVE DoorRequestLoop(_, _)
DoorRequestLoop(s, bag) ==
    IF bag = <<>> THEN s ELSE DoorRequestLoop(DoorRequest(s, Head(bag)), Tail(bag))

\* The external transition applying the feedback of ElevatorMove before the requests.
ElevatorDoor_externalTransition_FeedbackFirst(s, in) ==
    LET s1 == IF in.inElevatorMove # <<>>
              THEN [s EXCEPT !.floorNum = Last(in.inElevatorMove)] ELSE s
    IN  DoorRequestLoop(s1, in.inElevatorNum)

\* The external transition opening the door when the feedback reports the target.
ElevatorDoor_externalTransition_FeedbackOpens(s, in) ==
    LET s1 == DoorRequestLoop(s, in.inElevatorNum)
    IN  IF in.inElevatorMove # <<>>
        THEN [s1 EXCEPT !.floorNum = Last(in.inElevatorMove),
                        !.lightOn = IF Last(in.inElevatorMove) = s1.floorNumToMove
                                    THEN FALSE ELSE @]
        ELSE s1

\* in = [inElevatorNum, inElevatorMove], each a bag.
ElevatorDoor_externalTransition(s, in) ==
    LET s1 == DoorRequestLoop(s, in.inElevatorNum)
    IN  IF in.inElevatorMove # <<>>
        THEN [s1 EXCEPT !.floorNum = Last(in.inElevatorMove)] ELSE s1

ElevatorDoor_output(s) ==
    [outDoorStatus |-> <<s.lightOn>>, outFloorToMove |-> <<s.floorNumToMove>>]

ElevatorDoor_timeAdvance(s) == s.sigma

\* ------------------------------------------------------ ElevatorMove (Mover)
\* The LCD text "DFloor:d CFloor:c" is kept as the pair <<d, c>>.
LcdText(d, c) == <<d, c>>

ElevatorMoveState == [sigma |-> MoveSigma, floorNum |-> 1, floorToMove |-> 1,
                      buzzerDuty |-> 0, currentStatus |-> LcdText(1, 1),
                      currentStatuss |-> <<>>]

\* The time-driven transition going up even when it finds the floor reached.
ElevatorMove_internalTransition_NoStop(s) ==
    IF s.floorNum <= s.floorToMove
    THEN [s EXCEPT !.buzzerDuty = BuzzerOn, !.floorNum = s.floorNum + 1,
                   !.currentStatus = LcdText(s.floorToMove, s.floorNum + 1)]
    ELSE [s EXCEPT !.buzzerDuty = BuzzerOn, !.floorNum = s.floorNum - 1,
                   !.currentStatus = LcdText(s.floorToMove, s.floorNum - 1)]

\* The time-driven transition going to the target in one step.
ElevatorMove_internalTransition_Jump(s) ==
    IF s.floorNum # s.floorToMove
    THEN [s EXCEPT !.buzzerDuty = BuzzerOn, !.floorNum = s.floorToMove,
                   !.currentStatus = LcdText(s.floorToMove, s.floorToMove)]
    ELSE [s EXCEPT !.buzzerDuty = 0]

\* The time-driven transition leaving buzzerDuty on when it finds the floor reached.
ElevatorMove_internalTransition_NoIdle(s) ==
    IF s.floorNum < s.floorToMove
    THEN [s EXCEPT !.buzzerDuty = BuzzerOn, !.floorNum = s.floorNum + 1,
                   !.currentStatus = LcdText(s.floorToMove, s.floorNum + 1)]
    ELSE IF s.floorNum > s.floorToMove
    THEN [s EXCEPT !.buzzerDuty = BuzzerOn, !.floorNum = s.floorNum - 1,
                   !.currentStatus = LcdText(s.floorToMove, s.floorNum - 1)]
    ELSE s

\* The time-driven transition becoming passive when it finds the floor reached.
ElevatorMove_internalTransition_Passive(s) ==
    IF s.floorNum < s.floorToMove
    THEN [s EXCEPT !.buzzerDuty = BuzzerOn, !.floorNum = s.floorNum + 1,
                   !.currentStatus = LcdText(s.floorToMove, s.floorNum + 1)]
    ELSE IF s.floorNum > s.floorToMove
    THEN [s EXCEPT !.buzzerDuty = BuzzerOn, !.floorNum = s.floorNum - 1,
                   !.currentStatus = LcdText(s.floorToMove, s.floorNum - 1)]
    ELSE [s EXCEPT !.buzzerDuty = 0, !.sigma = Infinity]

ElevatorMove_internalTransition(s) ==
    IF s.floorNum < s.floorToMove
    THEN [s EXCEPT !.buzzerDuty = BuzzerOn, !.floorNum = s.floorNum + 1,
                   !.currentStatus = LcdText(s.floorToMove, s.floorNum + 1)]
    ELSE IF s.floorNum > s.floorToMove
    THEN [s EXCEPT !.buzzerDuty = BuzzerOn, !.floorNum = s.floorNum - 1,
                   !.currentStatus = LcdText(s.floorToMove, s.floorNum - 1)]
    ELSE [s EXCEPT !.buzzerDuty = 0]

\* The loop body switching the buzzer off when it stores a new target.
MoveTarget_ResetsBuzzer(s, x) ==
    IF s.floorToMove # x
    THEN [s EXCEPT !.floorToMove = x, !.buzzerDuty = 0, !.currentStatuss = Append(@, x)]
    ELSE s

\* Body of the loop over inMoveFloor for one message x.
MoveTarget(s, x) ==
    IF s.floorToMove # x
    THEN [s EXCEPT !.floorToMove = x, !.currentStatuss = Append(@, x)]
    ELSE s

RECURSIVE MoveTargetLoop(_, _)
MoveTargetLoop(s, bag) ==
    IF bag = <<>> THEN s ELSE MoveTargetLoop(MoveTarget(s, Head(bag)), Tail(bag))

\* in = [inMoveFloor], a bag.
ElevatorMove_externalTransition(s, in) == MoveTargetLoop(s, in.inMoveFloor)

\* The output taken from the state after the time-driven transition.
ElevatorMove_output_AfterStep(s) ==
    [outMoveFloor |-> <<ElevatorMove_internalTransition(s).floorNum>>,
     outMoveBuzzer |-> <<ElevatorMove_internalTransition(s).buzzerDuty>>,
     lcdStatus |-> <<ElevatorMove_internalTransition(s).currentStatus>>]

ElevatorMove_output(s) ==
    [outMoveFloor |-> <<s.floorNum>>, outMoveBuzzer |-> <<s.buzzerDuty>>,
     lcdStatus |-> <<s.currentStatus>>]

ElevatorMove_timeAdvance(s) == s.sigma

\* ------------------------------------------------------------ TrafficLight
\* TrafficLightState() with the constructor's state.sigma = greenredLightTime and
\* the last string it stores in currentToggle.
TrafficLightState == [sigma |-> GreenRedLightTime, lightOn |-> FALSE, fastToggle |-> FALSE,
                      mspRedOn |-> TRUE, mspGreenOn |-> FALSE, rgbCounter |-> 0,
                      currentToggle |-> "GR = 6s Y = 2s"]

\* The time-driven transition counting rgbCounter backwards.
TrafficLight_internalTransition_Reverse(s) ==
    LET c == (s.rgbCounter + 2) % 3
    IN  [s EXCEPT !.rgbCounter = c,
                  !.sigma = IF c = 1 \/ c = 2 THEN GreenRedLightTime ELSE YellowLightTime,
                  !.mspRedOn = (c # 1),
                  !.mspGreenOn = (c # 0)]

\* rgbCounter++, rgbCounter %= 3, then sigma and the two lights from rgbCounter.
TrafficLight_internalTransition(s) ==
    LET c == (s.rgbCounter + 1) % 3
    IN  [s EXCEPT !.rgbCounter = c,
                  !.sigma = IF c = 1 \/ c = 2 THEN GreenRedLightTime ELSE YellowLightTime,
                  !.mspRedOn = (c # 1),
                  !.mspGreenOn = (c # 0)]

\* The body of externalTransition is empty.
TrafficLight_externalTransition(s, in) == s

TrafficLight_output(s) ==
    [outMspRed |-> <<s.mspRedOn>>, outMspGreen |-> <<s.mspGreenOn>>,
     lcdToggle |-> <<s.currentToggle>>]

TrafficLight_timeAdvance(s) == s.sigma

\* Simulation record of the traffic light: age is the time since its last
\* time-driven transition, lasted the age the previous light had reached when it
\* was replaced, polls the inputs received since, fired the kind of the last
\* transition with its input bag and its output.
NoTraffic == [age |-> 0, lasted |-> 0, polls |-> 0, fired |-> "none", in |-> <<>>,
              out |-> [outMspRed |-> <<>>, outMspGreen |-> <<>>, lcdToggle |-> <<>>]]

\* -------------------------------------------------------------- GarageLock
\* The text drawn on the LCD, as <<column, row, text>>.
LockText(c, r, t) == <<c, r, t>>

\* GarageLockState() with the constructor's state.sigma = 0.1 and the last
\* strings it stores; the password is the sequence of its digits.
GarageLockState == [sigma |-> LockSigma, temperatureFound |-> 0, authorized |-> FALSE,
                    password |-> <<>>, xCoordinate |-> 0, yCoordinate |-> 0,
                    currentStatus |-> LockText(0, 3, "TopInput BottomSubmit"),
                    frozenStatus |-> ".", inputNumber |-> 0]

\* std::string currentPassword = "1234".
CurrentPassword == <<1, 2, 3, 4>>

\* The digit of the stored coordinates (0 when inside no quadrant).
LockDigit(s) ==
    IF s.xCoordinate > LockHigh /\ s.yCoordinate > LockHigh THEN 1
    ELSE IF s.xCoordinate < LockLow /\ s.yCoordinate > LockHigh THEN 2
    ELSE IF s.xCoordinate < LockLow /\ s.yCoordinate < LockLow THEN 3
    ELSE IF s.xCoordinate > LockHigh /\ s.yCoordinate < LockLow THEN 4
    ELSE 0

DigitText == <<"1", "2", "3", "4">>

\* Body of the loop over inInput for one message i (i = FALSE is the pressed button).
LockInput(s, i) ==
    IF i = FALSE /\ LockDigit(s) # 0
    THEN [s EXCEPT !.password = Append(@, LockDigit(s)),
                   !.currentStatus = LockText(s.inputNumber, 4, DigitText[LockDigit(s)]),
                   !.inputNumber = @ + 1]
    ELSE s

RECURSIVE LockInputLoop(_, _)
LockInputLoop(s, bag) ==
    IF bag = <<>> THEN s ELSE LockInputLoop(LockInput(s, Head(bag)), Tail(bag))

\* The loop body authorizing whatever the password is.
LockSubmit_AnyPassword(s, i) ==
    IF i = FALSE
    THEN [s EXCEPT !.authorized = TRUE,
                   !.password = <<>>,
                   !.currentStatus = LockText(0, 4, "       "),
                   !.inputNumber = 0]
    ELSE s

\* Body of the loop over inSubmit for one message i (i = FALSE is the pressed button).
LockSubmit(s, i) ==
    IF i = FALSE
    THEN [s EXCEPT !.authorized = IF s.password = CurrentPassword THEN TRUE ELSE @,
                   !.password = <<>>,
                   !.currentStatus = LockText(0, 4, "       "),
                   !.inputNumber = 0]
    ELSE s

RECURSIVE LockSubmitLoop(_, _)
LockSubmitLoop(s, bag) ==
    IF bag = <<>> THEN s ELSE LockSubmitLoop(LockSubmit(s, Head(bag)), Tail(bag))

\* Body of the loop over acquiredTemperature for one message t.
LockTemperature(s, t) ==
    [s EXCEPT !.temperatureFound = t,
              !.frozenStatus = IF t <= FrozenLimit THEN "FROZEN" ELSE "WORKING"]

RECURSIVE LockTemperatureLoop(_, _)
LockTemperatureLoop(s, bag) ==
    IF bag = <<>> THEN s
    ELSE LockTemperatureLoop(LockTemperature(s, Head(bag)), Tail(bag))

\* if (state.authorized == true) state.authorized = false.
GarageLock_internalTransition(s) ==
    IF s.authorized = TRUE THEN [s EXCEPT !.authorized = FALSE] ELSE s

\* in = [inInput, inSubmit, inX, inY, acquiredTemperature], each a bag.
GarageLock_externalTransition(s, in) ==
    LET s1 == LockInputLoop(s, in.inInput)
        s2 == LockSubmitLoop(s1, in.inSubmit)
        s3 == IF in.inX # <<>> THEN [s2 EXCEPT !.xCoordinate = Last(in.inX)] ELSE s2
        s4 == IF in.inY # <<>> THEN [s3 EXCEPT !.yCoordinate = Last(in.inY)] ELSE s3
    IN  LockTemperatureLoop(s4, in.acquiredTemperature)

GarageLock_output(s) ==
    [out |-> <<s.authorized>>, lcdStatus |-> <<s.currentStatus>>,
     lcdFrozenStatus |-> <<s.frozenStatus>>]

GarageLock_timeAdvance(s) == s.sigma

\* -------------------------------------------------------------- GarageDoor
\* GarageDoorState() with the constructor's state.sigma = 0.1.
GarageDoorState == [sigma |-> GarageDoorSigma, lightOn |-> FALSE]

GarageDoor_internalTransition(s) == s

\* Body of the loop over in for one message x.
DoorAuthorization(s, x) == IF x = TRUE THEN [s EXCEPT !.lightOn = ~s.lightOn] ELSE s

RECURSIVE DoorAuthorizationLoop(_, _)
DoorAuthorizationLoop(s, bag) ==
    IF bag = <<>> THEN s
    ELSE DoorAuthorizationLoop(DoorAuthorization(s, Head(bag)), Tail(bag))

\* in = [in], a bag.
GarageDoor_externalTransition(s, in) == DoorAuthorizationLoop(s, in.in)

GarageDoor_output(s) == [outLED |-> <<s.lightOn>>]

GarageDoor_timeAdvance(s) == s.sigma

\* ------------------------------------------------- garageSystem (coupled model)
NoLockInput == [inInput |-> <<>>, inSubmit |-> <<>>, inX |-> <<>>, inY |-> <<>>,
                acquiredTemperature |-> <<>>]

\* Simulation record of the garage system: tn is the time left to the next
\* scheduled transition of each component, fired the kinds of the last
\* transitions, in the bags last delivered to GarageLock, out the bag last sent
\* from GarageLock.out to GarageDoor.in.  History of the authorizations: owed
\* counts the submits received with the right password whose message has not
\* reached GarageDoor yet (2 stands for two or more), odd tells whether the
\* number of such submits so far is odd.
NoGarage == [tn |-> [lock |-> LockSigma, door |-> GarageDoorSigma],
             fired |-> [lock |-> "none", door |-> "none"],
             in |-> NoLockInput, out |-> <<>>, owed |-> 0, odd |-> FALSE]

\* ------------------------------------------------ elevatorSystem (coupled model)
\* Time left until timeNext after d has elapsed without a transition.
TimeLeft(t, d) == IF t = Infinity THEN Infinity ELSE t - d

\* The next instant at which some model is imminent.
MinNext == Min2(tn.num, Min2(tn.door, tn.move))

NoPorts == [inX |-> <<>>, inY |-> <<>>, inInput |-> <<>>, inDoorStatus |-> <<>>,
            out |-> <<>>, inElevatorNum |-> <<>>, inElevatorMove |-> <<>>,
            outDoorStatus |-> <<>>, outFloorToMove |-> <<>>, inMoveFloor |-> <<>>,
            outMoveFloor |-> <<>>, outMoveBuzzer |-> <<>>, lcdStatus |-> <<>>]

\* Collection at the instant d from now: the imminent models emit their output,
\* the four couplings of elevatorSystem copy it to the input ports, and the
\* input stream models deliver env = [inX, inY, inInput].
Collect(d, env) ==
    LET n == IF tn.num = d THEN ElevatorNum_output(num) ELSE [out |-> <<>>]
        g == IF tn.door = d THEN ElevatorDoor_output(door)
             ELSE [outDoorStatus |-> <<>>, outFloorToMove |-> <<>>]
        m == IF tn.move = d THEN ElevatorMove_output(move)
             ELSE [outMoveFloor |-> <<>>, outMoveBuzzer |-> <<>>, lcdStatus |-> <<>>]
    IN  [inX |-> env.inX, inY |-> env.inY, inInput |-> env.inInput,
         out |-> n.out,
         outDoorStatus |-> g.outDoorStatus, outFloorToMove |-> g.outFloorToMove,
         outMoveFloor |-> m.outMoveFloor, outMoveBuzzer |-> m.outMoveBuzzer,
         lcdStatus |-> m.lcdStatus,
         inElevatorNum |-> n.out,
         inDoorStatus |-> g.outDoorStatus,
         inMoveFloor |-> g.outFloorToMove,
         inElevatorMove |-> m.outMoveFloor]

NumInEmpty(p) == p.inX = <<>> /\ p.inY = <<>> /\ p.inInput = <<>> /\ p.inDoorStatus = <<>>
DoorInEmpty(p) == p.inElevatorNum = <<>> /\ p.inElevatorMove = <<>>
MoveInEmpty(p) == p.inMoveFloor = <<>>

\* Which transition a model makes at an instant: none, internal, external or
\* confluent (internal followed by external).
Kind(imminent, inEmpty) ==
    IF inEmpty THEN (IF imminent THEN "int" ELSE "none")
    ELSE (IF imminent THEN "conf" ELSE "ext")

NumTransition(s, k, p) ==
    IF k = "int" THEN ElevatorNum_internalTransition(s)
    ELSE IF k = "ext" THEN ElevatorNum_externalTransition(s, p)
    ELSE IF k = "conf"
    THEN ElevatorNum_externalTransition(ElevatorNum_internalTransition(s), p)
    ELSE s

DoorTransition(s, k, p) ==
    IF k = "int" THEN ElevatorDoor_internalTransition(s)
    ELSE IF k = "ext" THEN ElevatorDoor_externalTransition(s, p)
    ELSE IF k = "conf"
    THEN ElevatorDoor_externalTransition(ElevatorDoor_internalTransition(s), p)
    ELSE s

MoveTransition(s, k, p) ==
    IF k = "int" THEN ElevatorMove_internalTransition(s)
    ELSE IF k = "ext" THEN ElevatorMove_externalTransition(s, p)
    ELSE IF k = "conf"
    THEN ElevatorMove_externalTransition(ElevatorMove_internalTransition(s), p)
    ELSE s

\* History of the selection: floor q once a pressed button, accepted while
\* unlocked, had coordinates mapping to q with ElevatorMove and ElevatorDoor both
\* at floorNum = q; 0 again once floorNum of ElevatorNum (n after the instant)
\* changes by another selection.
SelectedHere(p, n) ==
    IF /\ p.inInput = <<FALSE>> /\ num.doorStatus = FALSE
       /\ AxisQuadrant(num) # 0
       /\ AxisQuadrant(num) = move.floorNum /\ AxisQuadrant(num) = door.floorNum
    THEN AxisQuadrant(num)
    ELSE IF n.floorNum = num.floorNum THEN here ELSE 0

\* One instant of the simulation, d after the last one.
Instant(d, env) ==
    LET p == Collect(d, env)
        k == [num |-> Kind(tn.num = d, NumInEmpty(p)),
              door |-> Kind(tn.door = d, DoorInEmpty(p)),
              move |-> Kind(tn.move = d, MoveInEmpty(p))]
    IN  /\ num' = NumTransition(num, k.num, p)
        /\ door' = DoorTransition(door, k.door, p)
        /\ move' = MoveTransition(move, k.move, p)
        /\ tn' = [num |-> IF k.num = "none" THEN TimeLeft(tn.num, d)
                          ELSE ElevatorNum_timeAdvance(num'),
                  door |-> IF k.door = "none" THEN TimeLeft(tn.door, d)
                           ELSE ElevatorDoor_timeAdvance(door'),
                  move |-> IF k.move = "none" THEN TimeLeft(tn.move, d)
                           ELSE ElevatorMove_timeAdvance(move')]
        /\ ports' = p
        /\ fired' = k
        /\ here' = SelectedHere(p, num')
        /\ UNCHANGED <<trafficVars, garageVars>>

NoEnv == [inX |-> <<>>, inY |-> <<>>, inInput |-> <<>>]

NoneFired == [num |-> "none", door |-> "none", move |-> "none"]

\* Joystick positions delivered to the coupled model: one inside each quadrant
\* (floors 1, 2, 3, 4) and the centre, which is inside none.
JoystickPositions == {<<300, 700>>, <<700, 700>>, <<300, 300>>, <<700, 300>>, <<500, 500>>}

\* The instants at which the button stream may deliver: together with the next
\* scheduled transition, or EnvOffset after the last instant when that is sooner.
EnvDelays == {MinNext} \cup {d \in {EnvOffset} : d < MinNext}

Init ==
    /\ num = ElevatorNumState
    /\ door = ElevatorDoorState
    /\ move = ElevatorMoveState
    /\ tn = [num |-> ElevatorNum_timeAdvance(num),
             door |-> ElevatorDoor_timeAdvance(door),
             move |-> ElevatorMove_timeAdvance(move)]
    /\ ports = NoPorts
    /\ fired = NoneFired
    /\ here = 0
    /\ trafficLight = TrafficLightState
    /\ tlsim = NoTraffic
    /\ garageLock = GarageLockState
    /\ garageDoor = GarageDoorState
    /\ gsim = NoGarage

\* Time passes until the next scheduled transition; no input arrives.
Elapse == Instant(MinNext, NoEnv)

\* The joystick streams deliver a coordinate pair at a scheduled instant.
Joystick ==
    \E xy \in JoystickPositions :
        Instant(MinNext, [inX |-> <<xy[1]>>, inY |-> <<xy[2]>>, inInput |-> <<>>])

\* The button stream delivers a value (FALSE is the pressed button).  The
\* status string of ElevatorNum grows without bound: deliveries stop at MaxStatus.
Button ==
    \E d \in EnvDelays : \E i \in BOOLEAN :
        /\ Len(num.currentStatus) < MaxStatus
        /\ Instant(d, [inX |-> <<>>, inY |-> <<>>, inInput |-> <<i>>])

\* The joystick streams deliver the held position again between two scheduled
\* instants (a stream sampling faster than the 0.11 poll of ElevatorNum).
Jitter ==
    /\ EnvOffset < MinNext
    /\ Instant(EnvOffset, [inX |-> <<num.xCoordinate>>, inY |-> <<num.yCoordinate>>,
                           inInput |-> <<>>])

Next == Elapse \/ Joystick \/ Button

Spec == Init /\ [][Next]_vars

\* The button is pressed at a scheduled instant.
PressAtPoll ==
    /\ Len(num.currentStatus) < MaxStatus
    /\ Instant(MinNext, [inX |-> <<>>, inY |-> <<>>, inInput |-> <<FALSE>>])

NextLive == Elapse \/ Joystick \/ PressAtPoll

\* Inputs arrive at scheduled instants only, so no scheduled transition is ever
\* postponed by an input, and the simulation never stops advancing time.
LiveSpec == Init /\ [][NextLive]_vars /\ WF_vars(Elapse)

NextFlood == Elapse \/ Joystick \/ Button \/ Jitter

FloodSpec == Init /\ [][NextFlood]_vars

\* ------------------------------------------- ElevatorDoor on its own
\* ElevatorDoor in any of its states, driven by arbitrary bags on its two input
\* ports; ElevatorNum and ElevatorMove stay as constructed.  sigma is infinite
\* only after the internal transition of a closed door.
DoorStates ==
    {s \in [sigma : {DoorSigma, Infinity}, floorNum : Floors, floorNumToMove : Floors,
             lightOn : BOOLEAN] :
        s.sigma = Infinity => s.lightOn = TRUE}

DoorInputs ==
    {b \in [inElevatorNum : BagsOf(Floors, MaxBag), inElevatorMove : BagsOf(Floors, MaxBag)] :
        b.inElevatorNum # <<>> \/ b.inElevatorMove # <<>>}

DoorInit ==
    /\ num = ElevatorNumState
    /\ move = ElevatorMoveState
    /\ door \in DoorStates
    /\ tn = [num |-> ElevatorNum_timeAdvance(num),
             door |-> ElevatorDoor_timeAdvance(door),
             move |-> ElevatorMove_timeAdvance(move)]
    /\ ports = NoPorts
    /\ fired = NoneFired
    /\ here = 0
    /\ trafficLight = TrafficLightState
    /\ tlsim = NoTraffic
    /\ garageLock = GarageLockState
    /\ garageDoor = GarageDoorState
    /\ gsim = NoGarage

\* One transition of ElevatorDoor of kind k with the bags b on its input ports.
DoorStep(k, b) ==
    LET g == IF k \in {"int", "conf"} THEN ElevatorDoor_output(door)
             ELSE [outDoorStatus |-> <<>>, outFloorToMove |-> <<>>]
        p == [NoPorts EXCEPT !.inElevatorNum = b.inElevatorNum,
                             !.inElevatorMove = b.inElevatorMove,
                             !.outDoorStatus = g.outDoorStatus,
                             !.outFloorToMove = g.outFloorToMove]
    IN  /\ door' = DoorTransition(door, k, p)
        /\ tn' = [tn EXCEPT !.door = ElevatorDoor_timeAdvance(door')]
        /\ ports' = p
        /\ fired' = [NoneFired EXCEPT !.door = k]
        /\ UNCHANGED <<num, move, here>>
        /\ UNCHANGED <<trafficVars, garageVars>>

\* Messages arrive before the scheduled transition.
DoorExternal == \E b \in DoorInputs : DoorStep("ext", b)

\* The scheduled transition, without input.
DoorInternal ==
    /\ tn.door # Infinity
    /\ DoorStep("int", [inElevatorNum |-> <<>>, inElevatorMove |-> <<>>])

\* Messages arrive at the instant of the scheduled transition.
DoorConfluent == tn.door # Infinity /\ \E b \in DoorInputs : DoorStep("conf", b)

DoorNext == DoorExternal \/ DoorInternal \/ DoorConfluent

DoorSpec == DoorInit /\ [][DoorNext]_vars

\* ElevatorDoor from its constructed state.
DoorRunSpec == Init /\ [][DoorNext]_vars

\* -------------------------------------------- ElevatorNum on its own
\* Coordinates stored in ElevatorNum: inside a quadrant (300, 700) and on the
\* two borders of the band between the quadrants (400, 600).
NumAxisValues == {300, 400, 600, 700}

\* Coordinates delivered on inX and inY.
NumAxisInputs == {300, 600}

\* currentStatus after the one selection that leads from the constructed state
\* to floorNum f.
StatusOf(f) == IF f = 1 THEN <<>> ELSE <<FloorText[f]>>

\* ElevatorNum after at most one selection, with any stored coordinates and
\* lock flag.
NumStates ==
    {s \in [sigma : {NumSigma}, xCoordinate : NumAxisValues, yCoordinate : NumAxisValues,
            floorNum : Floors, doorStatus : BOOLEAN,
            currentStatus : {StatusOf(f) : f \in Floors}] :
        s.currentStatus = StatusOf(s.floorNum)}

NumInputs ==
    {b \in [inInput : BagsOf(BOOLEAN, MaxBag), inX : BagsOf(NumAxisInputs, MaxBag),
            inY : BagsOf(NumAxisInputs, MaxBag), inDoorStatus : BagsOf(BOOLEAN, MaxBag)] :
        b.inInput # <<>> \/ b.inX # <<>> \/ b.inY # <<>> \/ b.inDoorStatus # <<>>}

NoNumInput == [inInput |-> <<>>, inX |-> <<>>, inY |-> <<>>, inDoorStatus |-> <<>>]

NumInit ==
    /\ num \in NumStates
    /\ door = ElevatorDoorState
    /\ move = ElevatorMoveState
    /\ tn = [num |-> ElevatorNum_timeAdvance(num),
             door |-> ElevatorDoor_timeAdvance(door),
             move |-> ElevatorMove_timeAdvance(move)]
    /\ ports = NoPorts
    /\ fired = NoneFired
    /\ here = 0
    /\ trafficLight = TrafficLightState
    /\ tlsim = NoTraffic
    /\ garageLock = GarageLockState
    /\ garageDoor = GarageDoorState
    /\ gsim = NoGarage

\* One transition of ElevatorNum of kind k with the bags b on its input ports,
\* made from one of NumStates.
NumStep(k, b) ==
    LET n == IF k \in {"int", "conf"} THEN ElevatorNum_output(num) ELSE [out |-> <<>>]
        p == [NoPorts EXCEPT !.inInput = b.inInput, !.inX = b.inX, !.inY = b.inY,
                             !.inDoorStatus = b.inDoorStatus, !.out = n.out]
    IN  /\ fired = NoneFired
        /\ num' = NumTransition(num, k, p)
        /\ tn' = [tn EXCEPT !.num = ElevatorNum_timeAdvance(num')]
        /\ ports' = p
        /\ fired' = [NoneFired EXCEPT !.num = k]
        /\ UNCHANGED <<door, move, here>>
        /\ UNCHANGED <<trafficVars, garageVars>>

\* Messages arrive before the scheduled transition.
NumExternal == \E b \in NumInputs : NumStep("ext", b)

\* The scheduled transition, without input.
NumInternal == NumStep("int", NoNumInput)

\* Messages arrive at the instant of the scheduled transition.
NumConfluent == \E b \in NumInputs : NumStep("conf", b)

NumNext == NumExternal \/ NumInternal \/ NumConfluent

NumSpec == NumInit /\ [][NumNext]_vars

\* -------------------------------------------- ElevatorMove on its own
\* ElevatorMove from its constructed state, driven by arbitrary bags of targets
\* on inMoveFloor; ElevatorNum and ElevatorDoor stay as constructed.
MoveInputs == BagsOf(Floors, MaxBag) \ {<<>>}

\* One transition of ElevatorMove of kind k with the bag b on inMoveFloor.
MoveStep(k, b) ==
    LET m == IF k \in {"int", "conf"} THEN ElevatorMove_output(move)
             ELSE [outMoveFloor |-> <<>>, outMoveBuzzer |-> <<>>, lcdStatus |-> <<>>]
        p == [NoPorts EXCEPT !.inMoveFloor = b,
                             !.outMoveFloor = m.outMoveFloor,
                             !.outMoveBuzzer = m.outMoveBuzzer,
                             !.lcdStatus = m.lcdStatus]
    IN  /\ move' = MoveTransition(move, k, p)
        /\ tn' = [tn EXCEPT !.move = ElevatorMove_timeAdvance(move')]
        /\ ports' = p
        /\ fired' = [NoneFired EXCEPT !.move = k]
        /\ UNCHANGED <<num, door, here>>
        /\ UNCHANGED <<trafficVars, garageVars>>

\* Targets arrive before the scheduled transition.  The log currentStatuss of
\* ElevatorMove grows without bound: deliveries stop at MaxTargets entries.
MoveExternal ==
    /\ Len(move.currentStatuss) < MaxTargets
    /\ \E b \in MoveInputs : MoveStep("ext", b)

\* The scheduled transition, without input.
MoveInternal == tn.move # Infinity /\ MoveStep("int", <<>>)

\* Targets arrive at the instant of the scheduled transition.
MoveConfluent ==
    /\ Len(move.currentStatuss) < MaxTargets
    /\ tn.move # Infinity
    /\ \E b \in MoveInputs : MoveStep("conf", b)

MoveNext == MoveExternal \/ MoveInternal \/ MoveConfluent

MoveSpec == Init /\ [][MoveNext]_vars

\* ------------------------------------------------- trafficlightSystem
TrafficTransition(s, k, b) ==
    IF k = "int" THEN TrafficLight_internalTransition(s)
    ELSE IF k = "ext" THEN TrafficLight_externalTransition(s, b)
    ELSE TrafficLight_externalTransition(TrafficLight_internalTransition(s), b)

\* One transition of TrafficLight of kind k, e after the previous one, with the
\* bag b on its port in.  The output is made from the state before the transition.
TrafficStep(k, e, b) ==
    /\ trafficLight' = TrafficTransition(trafficLight, k, b)
    /\ tlsim' = [age |-> IF k = "ext" THEN tlsim.age + e ELSE 0,
                 lasted |-> IF k = "ext" THEN tlsim.lasted ELSE tlsim.age + e,
                 polls |-> IF k = "ext" THEN tlsim.polls + 1 ELSE 0,
                 fired |-> k,
                 in |-> b,
                 out |-> IF k = "ext" THEN NoTraffic.out
                         ELSE TrafficLight_output(trafficLight)]
    /\ UNCHANGED <<elevatorVars, garageVars>>

TrafficInputs == BagsOf(BOOLEAN, MaxBag) \ {<<>>}

\* A message of digitalInput (or of input.txt) arrives before the scheduled
\* transition; at most MaxPolls of them while one light is shown.
TrafficExternal ==
    /\ tlsim.polls < MaxPolls
    /\ \E e \in 1..(TrafficLight_timeAdvance(trafficLight) - 1) :
         \E b \in TrafficInputs : TrafficStep("ext", e, b)

\* The scheduled transition, timeAdvance after the previous transition.
TrafficInternal == TrafficStep("int", TrafficLight_timeAdvance(trafficLight), <<>>)

\* A message arrives at the instant of the scheduled transition.
TrafficConfluent ==
    \E b \in TrafficInputs :
        TrafficStep("conf", TrafficLight_timeAdvance(trafficLight), b)

TrafficNext == TrafficExternal \/ TrafficInternal \/ TrafficConfluent

TrafficSpec == Init /\ [][TrafficNext]_vars

\* ---------------------------------------------------------------- claims
\* C1: in the coupled elevator, whenever the door is closed (lightOn) it is
\* eventually open again, and whenever ElevatorNum is locked (doorStatus) it is
\* eventually unlocked again, provided time keeps advancing.
C1_ArrivalReopens ==
    /\ (door.lightOn = TRUE) ~> (door.lightOn = FALSE)
    /\ (num.doorStatus = TRUE) ~> (num.doorStatus = FALSE)

\* C2: a floor is selected only while the door is open: in every step that
\* changes ElevatorNum.floorNum, ElevatorDoor.lightOn is FALSE.
C2_AcceptedOnlyDoorOpen ==
    [][num'.floorNum # num.floorNum => door.lightOn = FALSE]_vars

\* C3: the car never moves with the door open: in every step in which a
\* scheduled transition of ElevatorMove changes its floorNum, lightOn is TRUE.
C3_NoMoveDoorOpen ==
    [][(fired'.move \in {"int", "conf"} /\ move'.floorNum # move.floorNum)
          => door.lightOn = TRUE]_vars

\* The run in which exactly one confirm has been logged, the one selecting floor 2.
OnlyFloor2Selected == num.currentStatus = <<"2">>

\* C4: from the initial state, after the single confirm in quadrant 2 the run
\* proceeds in order: floorNum = 2 in ElevatorNum; the door closes with target 2
\* before the Mover gets target 2; the Mover leaves floor 1 only for floor 2 and
\* only after it got the target; the output that reports floor 2 carries
\* buzzerDuty 0 (idle); the door learns floor 2 only after the Mover reached it.
C4_EndToEnd ==
    OnlyFloor2Selected =>
        /\ num.floorNum = 2
        /\ door.floorNumToMove \in {1, 2}
        /\ (num.doorStatus = TRUE => door.floorNumToMove = 2)
        /\ (move.floorToMove = 2 => door.floorNumToMove = 2)
        /\ move.floorNum \in {1, 2}
        /\ (move.floorNum = 2 => move.floorToMove = 2)
        /\ door.floorNum \in {1, 2}
        /\ (door.floorNum = 2 => move.floorNum = 2)
        /\ (ports.outMoveFloor = <<2>> => ports.outMoveBuzzer = <<0>>)

\* C5: while the door is closed on a request F that the Mover has not yet
\* reported (lightOn, floorNumToMove = F # floorNum), no confirm changes
\* ElevatorNum.floorNum, and once the closed door has emitted its output the
\* Mover holds the target F.
C5_LockedUntilArrival ==
    [][(door.lightOn = TRUE /\ door.floorNumToMove # door.floorNum)
          => /\ num'.floorNum = num.floorNum
             /\ (door.sigma = Infinity => move.floorToMove = door.floorNumToMove)]_vars

\* C6: a transition of ElevatorDoor whose request differs from the stored
\* floorNum ends with lightOn = TRUE and floorNumToMove = the request.
C6_DifferentRequestCloses ==
    [][(ports'.inElevatorNum # <<>> /\ Last(ports'.inElevatorNum) # door.floorNum)
          => /\ door'.lightOn = TRUE
             /\ door'.floorNumToMove = Last(ports'.inElevatorNum)]_vars

C6_Witness ==
    /\ fired.door \in {"ext", "conf"}
    /\ ports.inElevatorNum # <<>> /\ ports.inElevatorMove = <<>>
    /\ Last(ports.inElevatorNum) # door.floorNum
    /\ door.lightOn = TRUE /\ door.floorNumToMove = Last(ports.inElevatorNum)
    /\ door.sigma = Infinity

\* C7: a transition of ElevatorDoor whose request equals the stored floorNum
\* ends with lightOn = FALSE and the time advance 0.11.
C7_EqualRequestOpens ==
    [][(ports'.inElevatorNum # <<>> /\ Last(ports'.inElevatorNum) = door.floorNum)
          => /\ door'.lightOn = FALSE
             /\ ElevatorDoor_timeAdvance(door') = DoorSigma
             /\ tn'.door = DoorSigma]_vars

C7_Witness ==
    /\ fired.door = "ext"
    /\ ports.inElevatorNum # <<>> /\ ports.inElevatorMove = <<>>
    /\ Last(ports.inElevatorNum) = door.floorNum
    /\ door.lightOn = FALSE /\ tn.door = DoorSigma
    /\ door.floorNumToMove # door.floorNum

\* C8: when the door is open after a request F equal to floorNum, the target it
\* next emits to the Mover is F.
C8_EqualRequestForwardsNothingElse ==
    [][(ports.inElevatorNum # <<>> /\ door.lightOn = FALSE /\ ports'.outFloorToMove # <<>>)
          => Last(ports'.outFloorToMove) = Last(ports.inElevatorNum)]_vars

\* C9: after every transition of ElevatorDoor that processed a request,
\* lightOn = TRUE exactly when floorNumToMove differs from the floorNum the
\* request was compared against.
C9_ClosedIffTargetDiffers ==
    [][ports'.inElevatorNum # <<>>
          => (door'.lightOn = TRUE <=> door'.floorNumToMove # door.floorNum)]_vars

\* C10: once a pressed button was accepted with coordinates mapping to the
\* floor at which both ElevatorMove and ElevatorDoor are, and for as long as no
\* other floor is selected, the door never goes from open to closed.
C10_CurrentFloorNeverCloses ==
    [][(here # 0 /\ door.lightOn = FALSE) => door'.lightOn = FALSE]_vars

\* A bag on inInput that holds a pressed button (a message equal to 0).
HasPress(bag) == \E j \in 1..Len(bag) : bag[j] = FALSE

\* Only inInput carries messages.
OnlyConfirm(p) ==
    p.inInput # <<>> /\ p.inX = <<>> /\ p.inY = <<>> /\ p.inDoorStatus = <<>>

\* The "DC" entries logged for a bag of n messages received while locked.
DroppedLog(n) == [j \in 1..n |-> "DC"]

\* C11: floorNum of ElevatorNum changes only in a transition that starts with
\* doorStatus = FALSE and receives a pressed button; messages on inInput while
\* doorStatus = TRUE leave floorNum as it is.
C11_ChangeOnlyUnlockedConfirm ==
    [][/\ (num'.floorNum # num.floorNum
            => (num.doorStatus = FALSE /\ HasPress(ports'.inInput)))
       /\ ((num.doorStatus = TRUE /\ ports'.inInput # <<>>)
            => num'.floorNum = num.floorNum)]_vars

C11_Witness ==
    /\ fired.num \in {"ext", "conf"}
    /\ OnlyConfirm(ports) /\ HasPress(ports.inInput)
    /\ num.doorStatus = TRUE
    /\ AxisQuadrant(num) \notin {0, num.floorNum}
    /\ num.currentStatus = StatusOf(num.floorNum) \o DroppedLog(Len(ports.inInput))

\* C12: a pressed button received while unlocked with the stored coordinates
\* strictly inside a quadrant leaves floorNum at that quadrant's floor; when
\* floorNum was that floor already, neither floorNum nor currentStatus changes.
C12_QuadrantSelectsFloor ==
    [][(num.doorStatus = FALSE /\ HasPress(ports'.inInput) /\ AxisQuadrant(num) # 0)
          => /\ num'.floorNum = AxisQuadrant(num)
             /\ (num.floorNum = AxisQuadrant(num)
                   => num'.currentStatus = num.currentStatus)
             /\ (num.floorNum # AxisQuadrant(num)
                   => num'.currentStatus =
                        Append(num.currentStatus, FloorText[AxisQuadrant(num)]))]_vars

C12_Witness ==
    /\ fired.num \in {"ext", "conf"}
    /\ OnlyConfirm(ports) /\ HasPress(ports.inInput)
    /\ num.doorStatus = FALSE
    /\ AxisQuadrant(num) = 4 /\ num.floorNum = 4
    /\ num.currentStatus = <<"3", "4">>

\* C13 as stated: a pressed button received while the stored coordinates are
\* inside no quadrant (the borders 400 and 600 included) changes no state
\* variable of ElevatorNum.
C13_NoQuadrantNoChange ==
    [][(OnlyConfirm(ports') /\ HasPress(ports'.inInput) /\ AxisQuadrant(num) = 0)
          => num' = num]_vars

\* C13 amended: such a confirm leaves floorNum, the coordinates, doorStatus and
\* sigma unchanged; currentStatus is unchanged while unlocked and gets one "DC"
\* entry per message while locked.
C13_NoQuadrantNoSelection ==
    [][(OnlyConfirm(ports') /\ HasPress(ports'.inInput) /\ AxisQuadrant(num) = 0)
          => num' = [num EXCEPT !.currentStatus =
                        IF num.doorStatus = TRUE
                        THEN @ \o DroppedLog(Len(ports'.inInput)) ELSE @]]_vars

C13_Witness ==
    /\ fired.num \in {"ext", "conf"}
    /\ OnlyConfirm(ports) /\ HasPress(ports.inInput)
    /\ num.doorStatus = FALSE
    /\ num.xCoordinate = QuadLow /\ num.yCoordinate = 700
    /\ num.floorNum = 3 /\ num.currentStatus = StatusOf(3)

\* C14 as stated: no message is placed on out at a scheduled output while
\* doorStatus = TRUE.
C14_EmitsOnlyUnlocked ==
    [][(fired'.num \in {"int", "conf"} /\ num.doorStatus = TRUE) => ports'.out = <<>>]_vars

\* C14 amended: every scheduled output of ElevatorNum places floorNum on out,
\* whether doorStatus is TRUE or FALSE.
C14_EmitsAtEveryPoll ==
    [][fired'.num \in {"int", "conf"} => ports'.out = <<num.floorNum>>]_vars

C14_Witness ==
    /\ fired.num = "int"
    /\ num.doorStatus = TRUE
    /\ ports.out = <<num.floorNum>>

\* C15: a transition of ElevatorNum stores the last message of inX and of inY,
\* whatever doorStatus is, and a transition that receives coordinates only
\* changes neither floorNum nor doorStatus nor currentStatus.
C15_AxesStoredAlways ==
    [][/\ (ports'.inX # <<>> => num'.xCoordinate = Last(ports'.inX))
       /\ (ports'.inY # <<>> => num'.yCoordinate = Last(ports'.inY))
       /\ ((fired'.num \in {"ext", "conf"} /\ ports'.inInput = <<>>
             /\ ports'.inDoorStatus = <<>>)
            => /\ num'.floorNum = num.floorNum
               /\ num'.doorStatus = num.doorStatus
               /\ num'.currentStatus = num.currentStatus)]_vars

C15_Witness ==
    /\ fired.num \in {"ext", "conf"}
    /\ ports.inX # <<>> /\ ports.inY # <<>>
    /\ ports.inInput = <<>> /\ ports.inDoorStatus = <<>>
    /\ num.doorStatus = TRUE
    /\ num.xCoordinate = Last(ports.inX) /\ num.yCoordinate = Last(ports.inY)
    /\ AxisQuadrant(num) = 0

\* Distance between the floor and the target of an ElevatorMove state.
Distance(s) ==
    IF s.floorNum < s.floorToMove THEN s.floorToMove - s.floorNum
    ELSE s.floorNum - s.floorToMove

\* C16: in every reachable state of ElevatorMove, buzzerDuty = 0 exactly when
\* floorNum = floorToMove.
C16_IdleIffAtTarget ==
    (move.buzzerDuty = 0) <=> (move.floorNum = move.floorToMove)

\* C17: in every transition of ElevatorMove floorNum stays or changes by exactly
\* 1 towards the stored floorToMove, never past it; it changes in, and only in,
\* the time-driven transitions (internal or confluent) that start with
\* floorNum # floorToMove, whether or not a new target arrives with them.
C17_OneStepTowardsTarget ==
    [][/\ (fired'.move \in {"int", "conf"} /\ move.floorNum < move.floorToMove)
            => move'.floorNum = move.floorNum + 1
       /\ (fired'.move \in {"int", "conf"} /\ move.floorNum > move.floorToMove)
            => move'.floorNum = move.floorNum - 1
       /\ (fired'.move \in {"ext", "none"} \/ move.floorNum = move.floorToMove)
            => move'.floorNum = move.floorNum]_vars

C17_Witness ==
    /\ fired.move = "conf"
    /\ ports.inMoveFloor = <<1>>
    /\ move.floorNum = 2 /\ move.floorToMove = 1
    /\ move.currentStatus = LcdText(3, 2)
    /\ move.currentStatuss = <<3, 1>>

C20_IdleEmitted ==
    (move.floorNum = move.floorToMove /\ move.buzzerDuty = BuzzerOn)
        ~> (ports.outMoveBuzzer = <<0>>)

\* C21: when requests and a feedback of ElevatorMove reach ElevatorDoor at the
\* same instant, the last request is compared with the floorNum stored before
\* the instant, and floorNum then becomes the last feedback value: the state
\* after the transition depends on the two bags only.
C21_RequestAgainstOldFloor ==
    [][(ports'.inElevatorNum # <<>> /\ ports'.inElevatorMove # <<>>)
          => /\ door'.lightOn = (Last(ports'.inElevatorNum) # door.floorNum)
             /\ (Last(ports'.inElevatorNum) # door.floorNum
                   => door'.floorNumToMove = Last(ports'.inElevatorNum))
             /\ door'.floorNum = Last(ports'.inElevatorMove)]_vars

C21_Witness ==
    /\ fired.door \in {"ext", "conf"}
    /\ ports.inElevatorNum # <<>> /\ ports.inElevatorMove # <<>>
    /\ Last(ports.inElevatorNum) = Last(ports.inElevatorMove)
    /\ door.floorNum = Last(ports.inElevatorMove)
    /\ door.lightOn = TRUE /\ door.floorNumToMove = door.floorNum

\* C22: floorNum of ElevatorDoor changes only in a transition that receives a
\* feedback of ElevatorMove, and then to the last value of that bag; requests
\* alone and the internal transition leave it as it is.
C22_FloorOnlyFromFeedback ==
    [][/\ (door'.floorNum # door.floorNum => ports'.inElevatorMove # <<>>)
       /\ (ports'.inElevatorMove = <<>> => door'.floorNum = door.floorNum)]_vars

C22_Witness ==
    /\ fired.door \in {"ext", "conf"}
    /\ ports.inElevatorNum # <<>> /\ ports.inElevatorMove = <<>>
    /\ door.lightOn = TRUE
    /\ door.floorNumToMove = Last(ports.inElevatorNum)
    /\ door.floorNum # door.floorNumToMove

\* C23: the internal transition of ElevatorDoor leaves the door passive (time
\* advance infinite) when lightOn = TRUE and re-arms 0.11 when lightOn = FALSE;
\* it changes neither lightOn nor floorNumToMove nor floorNum.
C23_InternalTransition ==
    [][fired'.door = "int"
          => /\ (door.lightOn = TRUE => tn'.door = Infinity)
             /\ (door.lightOn = FALSE => tn'.door = DoorSigma)
             /\ door'.lightOn = door.lightOn
             /\ door'.floorNumToMove = door.floorNumToMove
             /\ door'.floorNum = door.floorNum]_vars

C23_Witness ==
    /\ fired.door = "int"
    /\ door.lightOn = TRUE /\ tn.door = Infinity
    /\ ports.outDoorStatus = <<TRUE>>

C25_TargetDelivered ==
    (door.lightOn = TRUE /\ tn.door = Infinity) => move.floorToMove = door.floorNumToMove

\* C26: a transition of ElevatorMove that receives inMoveFloor messages ends
\* with the last message as floorToMove, logs a change of floorToMove in
\* currentStatuss, and has the next scheduled transition 2.0 s away; a bag of
\* messages all equal to floorToMove changes neither floorToMove nor the log;
\* floorNum, buzzerDuty and currentStatus are what the time-driven part (if any)
\* of the transition left: no input changes them.
C26_TargetStoredOnly ==
    [][fired'.move \in {"ext", "conf"} =>
        LET b == ports'.inMoveFloor
            base == IF fired'.move = "conf"
                    THEN ElevatorMove_internalTransition(move) ELSE move
        IN  /\ b # <<>>
            /\ move'.floorToMove = Last(b)
            /\ tn'.move = MoveSigma
            /\ move'.floorNum = base.floorNum
            /\ move'.buzzerDuty = base.buzzerDuty
            /\ move'.currentStatus = base.currentStatus
            /\ (Last(b) # move.floorToMove
                  => /\ Len(move'.currentStatuss) > Len(move.currentStatuss)
                     /\ Last(move'.currentStatuss) = Last(b))
            /\ ((\A i \in 1..Len(b) : b[i] = move.floorToMove)
                  => /\ move'.floorToMove = move.floorToMove
                     /\ move'.currentStatuss = move.currentStatuss)]_vars

C26_Witness ==
    /\ fired.move = "ext"
    /\ ports.inMoveFloor = <<move.floorToMove>>
    /\ Len(move.currentStatuss) = 2
    /\ move.floorNum # move.floorToMove
    /\ move.buzzerDuty = BuzzerOn
    /\ tn.move = MoveSigma

\* C27: every scheduled transition of ElevatorMove comes with one message on
\* each output port carrying floorNum, buzzerDuty and currentStatus as they
\* were before the transition, so a step that changes floorNum does not report
\* the new floor; a transition caused by input alone emits nothing.
C27_OutputBeforeTransition ==
    [][/\ (fired'.move \in {"int", "conf"}
            => /\ ports'.outMoveFloor = <<move.floorNum>>
               /\ ports'.outMoveBuzzer = <<move.buzzerDuty>>
               /\ ports'.lcdStatus = <<move.currentStatus>>
               /\ (move'.floorNum # move.floorNum
                     => ports'.outMoveFloor # <<move'.floorNum>>))
       /\ (fired'.move = "ext"
            => /\ ports'.outMoveFloor = <<>>
               /\ ports'.outMoveBuzzer = <<>>
               /\ ports'.lcdStatus = <<>>)]_vars

C27_Witness ==
    /\ fired.move = "int"
    /\ ports.outMoveFloor = <<1>> /\ move.floorNum = 2
    /\ ports.outMoveBuzzer = <<0>> /\ move.buzzerDuty = BuzzerOn
    /\ ports.lcdStatus = <<LcdText(1, 1)>>

\* C28: in the coupled elevator every floor variable is one of 1..4 in every
\* reachable state.
C28_FloorsWellFormed ==
    /\ num.floorNum \in Floors
    /\ door.floorNum \in Floors
    /\ door.floorNumToMove \in Floors
    /\ move.floorNum \in Floors
    /\ move.floorToMove \in Floors

C28_Witness ==
    /\ num.floorNum = 4 /\ door.floorNumToMove = 4 /\ move.floorToMove = 4
    /\ move.floorNum = 4 /\ door.floorNum = 4
    /\ door.lightOn = FALSE /\ num.doorStatus = FALSE

\* C29: ElevatorDoor is passive (time advance infinite) only with lightOn =
\* TRUE, and the transition in which it becomes passive comes with an output
\* whose outDoorStatus is TRUE.
C29_PassiveOnlyClosed ==
    [][/\ (tn'.door = Infinity => (door'.lightOn = TRUE /\ door'.sigma = Infinity))
       /\ (door'.lightOn = FALSE => (door'.sigma = DoorSigma /\ tn'.door <= DoorSigma))
       /\ ((tn.door # Infinity /\ tn'.door = Infinity)
            => ports'.outDoorStatus = <<TRUE>>)]_vars

C29_Witness ==
    /\ fired.door = "conf"
    /\ ports.inElevatorNum # <<>>
    /\ ports.outDoorStatus = <<TRUE>>
    /\ tn.door = Infinity /\ door.lightOn = TRUE
    /\ door.floorNumToMove = Last(ports.inElevatorNum)

\* C30: when messages on inInput reach ElevatorNum together with messages on
\* inX, inY or inDoorStatus, the pressed button is judged with the coordinates
\* and doorStatus stored before the transition: with doorStatus = FALSE before,
\* the floor of the old coordinates' quadrant is selected whatever arrives on
\* inDoorStatus; with doorStatus = TRUE before, floorNum stays whatever arrives;
\* the arriving coordinates and lock flag are the stored ones afterwards.
C30_ConfirmUsesStoredState ==
    [][(/\ ports'.inInput # <<>>
        /\ (ports'.inX # <<>> \/ ports'.inY # <<>> \/ ports'.inDoorStatus # <<>>))
          => /\ ((num.doorStatus = FALSE /\ HasPress(ports'.inInput)
                    /\ AxisQuadrant(num) # 0)
                   => num'.floorNum = AxisQuadrant(num))
             /\ ((num.doorStatus = FALSE
                    /\ (~HasPress(ports'.inInput) \/ AxisQuadrant(num) = 0))
                   => num'.floorNum = num.floorNum)
             /\ (num.doorStatus = TRUE => num'.floorNum = num.floorNum)
             /\ (ports'.inX # <<>> => num'.xCoordinate = Last(ports'.inX))
             /\ (ports'.inY # <<>> => num'.yCoordinate = Last(ports'.inY))
             /\ (ports'.inDoorStatus # <<>>
                   => num'.doorStatus = Last(ports'.inDoorStatus))]_vars

C30_Witness ==
    /\ fired.num = "ext"
    /\ ports.inInput = <<FALSE>> /\ ports.inX = <<300>> /\ ports.inY = <<>>
    /\ ports.inDoorStatus = <<TRUE>>
    /\ num.xCoordinate = 300 /\ num.yCoordinate = 300
    /\ num.doorStatus = TRUE
    /\ num.floorNum = 4 /\ num.currentStatus = <<"2", "4">>

\* C31: while doorStatus = TRUE every message on inInput appends one "DC" to
\* currentStatus and changes nothing else: floorNum stays, and with no other
\* port carrying a message the coordinates, doorStatus and sigma stay too; the
\* output of ElevatorNum carries floorNum only, so the log reaches no other
\* component.
C31_LockedConfirmOnlyLogged ==
    [][(num.doorStatus = TRUE /\ ports'.inInput # <<>>)
          => /\ num'.currentStatus =
                   num.currentStatus \o DroppedLog(Len(ports'.inInput))
             /\ num'.floorNum = num.floorNum
             /\ (OnlyConfirm(ports')
                   => num' = [num EXCEPT !.currentStatus =
                                num.currentStatus \o DroppedLog(Len(ports'.inInput))])
             /\ ports'.out \in {<<>>, <<num.floorNum>>}]_vars

C31_Witness ==
    /\ fired.num = "conf"
    /\ OnlyConfirm(ports) /\ ports.inInput = <<FALSE>>
    /\ ports.out = <<num.floorNum>>
    /\ num.doorStatus = TRUE
    /\ AxisQuadrant(num) \notin {0, num.floorNum}
    /\ num.currentStatus = StatusOf(num.floorNum) \o <<"DC">>

\* C32: while doorStatus = FALSE, floorNum changes only when inInput carries a
\* message equal to 0 (FALSE); a bag on inInput holding only messages equal to
\* 1 (TRUE), with no message on another port, leaves the state of ElevatorNum
\* as it was.
C32_ConfirmActiveLow ==
    [][num.doorStatus = FALSE
          => /\ (num'.floorNum # num.floorNum => HasPress(ports'.inInput))
             /\ ((OnlyConfirm(ports') /\ ~HasPress(ports'.inInput)) => num' = num)]_vars

C32_Witness ==
    /\ fired.num = "ext"
    /\ OnlyConfirm(ports) /\ ports.inInput = <<TRUE>>
    /\ num.doorStatus = FALSE
    /\ AxisQuadrant(num) \notin {0, num.floorNum}
    /\ num.currentStatus = StatusOf(num.floorNum)

\* The light shown by the two LEDs: red alone, green alone, both (yellow).
Shown(s) ==
    IF s.mspRedOn /\ ~s.mspGreenOn THEN "Red"
    ELSE IF ~s.mspRedOn /\ s.mspGreenOn THEN "Green"
    ELSE IF s.mspRedOn /\ s.mspGreenOn THEN "Yellow"
    ELSE "Off"

\* The order Red -> Green -> Yellow -> Red.
Following(l) == IF l = "Red" THEN "Green" ELSE IF l = "Green" THEN "Yellow" ELSE "Red"

\* C33: the traffic light shows Red, Green or Yellow (never both LEDs off) in
\* every state and always has a next time-driven transition scheduled; every
\* time-driven transition replaces the light by the one following it in the
\* order Red -> Green -> Yellow -> Red, and a transition caused by input alone
\* leaves the state of TrafficLight as it was.
C33_LightCycle ==
    [][/\ Shown(trafficLight) # "Off" /\ Shown(trafficLight') # "Off"
       /\ trafficLight'.sigma \in {GreenRedLightTime, YellowLightTime}
       /\ (tlsim'.fired \in {"int", "conf"}
             => Shown(trafficLight') = Following(Shown(trafficLight)))
       /\ (tlsim'.fired = "ext" => trafficLight' = trafficLight)]_vars

C33_Witness ==
    /\ tlsim.fired = "conf" /\ tlsim.in # <<>>
    /\ Shown(trafficLight) = "Red" /\ trafficLight.rgbCounter = 0
    /\ trafficLight.sigma = YellowLightTime
    /\ tlsim.out.outMspRed = <<TRUE>> /\ tlsim.out.outMspGreen = <<TRUE>>

\* The duration documented for a light: 6 for Green and Red, 2 for Yellow.
Duration(l) == IF l = "Yellow" THEN YellowLightTime ELSE GreenRedLightTime

\* C34: the time advance set by a time-driven transition is 6 when the light
\* it switches on is Green or Red and 2 when it is Yellow, and a light that
\* received no input while shown is replaced after that time.
C34_PhaseDurations ==
    [][tlsim'.fired \in {"int", "conf"}
          => /\ trafficLight'.sigma = Duration(Shown(trafficLight'))
             /\ (tlsim.polls = 0
                   => tlsim'.lasted = Duration(Shown(trafficLight)))]_vars

\* ------------------------------------------------- garageSystem: one instant
LockTransition(s, k, in) ==
    IF k = "int" THEN GarageLock_internalTransition(s)
    ELSE IF k = "ext" THEN GarageLock_externalTransition(s, in)
    ELSE IF k = "conf"
    THEN GarageLock_externalTransition(GarageLock_internalTransition(s), in)
    ELSE s

GarageDoorTransition(s, k, in) ==
    IF k = "int" THEN GarageDoor_internalTransition(s)
    ELSE IF k = "ext" THEN GarageDoor_externalTransition(s, in)
    ELSE IF k = "conf"
    THEN GarageDoor_externalTransition(GarageDoor_internalTransition(s), in)
    ELSE s

GarageMinNext == Min2(gsim.tn.lock, gsim.tn.door)

\* 1 when the bags env hold a submit that finds the right password in the
\* state s of GarageLock (digits of the same bags already appended), else 0.
Accepted(s, env) ==
    IF HasPress(env.inSubmit) /\ LockInputLoop(s, env.inInput).password = CurrentPassword
    THEN 1 ELSE 0

\* The number of messages equal to TRUE in a bag.
RECURSIVE Authorizations(_)
Authorizations(bag) ==
    IF bag = <<>> THEN 0
    ELSE (IF Head(bag) = TRUE THEN 1 ELSE 0) + Authorizations(Tail(bag))

\* The instant d from now: the imminent models emit their output, the coupling
\* GarageLock.out -> GarageDoor.in copies it, the input streams deliver env,
\* and each component with input or imminent makes its transition.
GarageInstant(d, env) ==
    LET lo == IF gsim.tn.lock = d THEN GarageLock_output(garageLock).out ELSE <<>>
        kl == Kind(gsim.tn.lock = d, env = NoLockInput)
        kd == Kind(gsim.tn.door = d, lo = <<>>)
        base == IF kl = "conf" THEN GarageLock_internalTransition(garageLock)
                ELSE garageLock
        acc == IF kl \in {"ext", "conf"} THEN Accepted(base, env) ELSE 0
    IN  /\ garageLock' = LockTransition(garageLock, kl, env)
        /\ garageDoor' = GarageDoorTransition(garageDoor, kd, [in |-> lo])
        /\ gsim' = [tn |-> [lock |-> IF kl = "none" THEN gsim.tn.lock - d
                                     ELSE GarageLock_timeAdvance(garageLock'),
                            door |-> IF kd = "none" THEN gsim.tn.door - d
                                     ELSE GarageDoor_timeAdvance(garageDoor')],
                    fired |-> [lock |-> kl, door |-> kd],
                    in |-> env,
                    out |-> lo,
                    owed |-> Min2(2, gsim.owed + acc - Authorizations(lo)),
                    odd |-> IF acc = 1 THEN ~gsim.odd ELSE gsim.odd]
        /\ UNCHANGED <<elevatorVars, trafficVars>>

\* The instants at which an input stream may deliver: together with the next
\* scheduled transition, or EnvOffset after the last instant when that is sooner.
GarageDelays == {GarageMinNext} \cup {d \in {EnvOffset} : d < GarageMinNext}

\* Joystick positions: one inside each quadrant (digits 2, 1, 3, 4) and the centre.
LockPositions == {<<300, 700>>, <<700, 700>>, <<300, 300>>, <<700, 300>>, <<500, 500>>}

\* Time passes until the next scheduled transition; no input arrives.
GarageElapse == GarageInstant(GarageMinNext, NoLockInput)

\* The joystick streams deliver a position.
GarageJoystick ==
    \E d \in GarageDelays : \E xy \in LockPositions :
        GarageInstant(d, [NoLockInput EXCEPT !.inX = <<xy[1]>>, !.inY = <<xy[2]>>])

\* The top button stream delivers a value (FALSE is the pressed button).  The
\* password grows without bound: deliveries stop at MaxDigits digits.
GarageButton ==
    \E d \in GarageDelays : \E i \in BOOLEAN :
        /\ Len(garageLock.password) < MaxDigits
        /\ GarageInstant(d, [NoLockInput EXCEPT !.inInput = <<i>>])

\* The bottom button stream delivers a value (FALSE is the pressed button).
GarageSubmit ==
    \E d \in GarageDelays : \E i \in BOOLEAN :
        GarageInstant(d, [NoLockInput EXCEPT !.inSubmit = <<i>>])

GarageNext == GarageElapse \/ GarageJoystick \/ GarageButton \/ GarageSubmit

GarageSpec == Init /\ [][GarageNext]_vars

\* -------------------------------------------------- GarageLock in any state
\* Passwords entered so far: the prefixes of "1234" and some wrong entries.
LockPasswords ==
    {SubSeq(CurrentPassword, 1, k) : k \in 0..4} \cup {<<1, 2, 3, 3>>, <<1, 2, 4>>, <<4>>}

\* GarageLock with any of these passwords, any joystick position stored and
\* either value of authorized.
LockStates ==
    {[GarageLockState EXCEPT !.password = pw, !.inputNumber = Len(pw),
                             !.xCoordinate = xy[1], !.yCoordinate = xy[2],
                             !.authorized = a] :
        pw \in LockPasswords, xy \in LockPositions, a \in BOOLEAN}

\* Bags on the input ports of GarageLock, at least one of them with a message.
LockInputs ==
    {b \in [inInput : BagsOf(BOOLEAN, MaxBag), inSubmit : BagsOf(BOOLEAN, MaxBag),
            inX : {<<>>, <<700>>}, inY : {<<>>, <<700>>},
            acquiredTemperature : BagsOf({FrozenLimit, FrozenLimit + 1}, MaxBag)] :
        b # NoLockInput}

LockInit ==
    /\ num = ElevatorNumState
    /\ door = ElevatorDoorState
    /\ move = ElevatorMoveState
    /\ tn = [num |-> ElevatorNum_timeAdvance(num),
             door |-> ElevatorDoor_timeAdvance(door),
             move |-> ElevatorMove_timeAdvance(move)]
    /\ ports = NoPorts
    /\ fired = NoneFired
    /\ here = 0
    /\ trafficLight = TrafficLightState
    /\ tlsim = NoTraffic
    /\ garageLock \in LockStates
    /\ garageDoor \in {[GarageDoorState EXCEPT !.lightOn = l] : l \in BOOLEAN}
    /\ gsim = [NoGarage EXCEPT !.owed = IF garageLock.authorized THEN 1 ELSE 0]

\* Messages arrive before the scheduled transitions.
LockExternal ==
    /\ gsim.fired.lock = "none"
    /\ EnvOffset < GarageMinNext
    /\ \E b \in LockInputs : GarageInstant(EnvOffset, b)

\* The scheduled transitions, without input.
LockInternal ==
    /\ gsim.fired.lock = "none"
    /\ GarageInstant(GarageMinNext, NoLockInput)

\* Messages arrive at the instant of the scheduled transitions.
LockConfluent ==
    /\ gsim.fired.lock = "none"
    /\ \E b \in LockInputs : GarageInstant(GarageMinNext, b)

LockNext == LockExternal \/ LockInternal \/ LockConfluent

LockSpec == LockInit /\ [][LockNext]_vars

\* C35: in the garage system every submit received with the password "1234"
\* toggles lightOn of GarageDoor exactly once: a submit that has not toggled the
\* light yet is the one authorization GarageLock holds (authorized = TRUE, to be
\* emitted by its next output and reset by the transition that follows), and
\* once every authorization has been delivered the light is on exactly when
\* the number of such submits is odd.
C35_OneTogglePerSubmit ==
    /\ gsim.owed = (IF garageLock.authorized = TRUE THEN 1 ELSE 0)
    /\ (gsim.owed = 0 => garageDoor.lightOn = gsim.odd)

\* The number of pressed buttons (messages equal to 0) in a bag.
RECURSIVE Presses(_)
Presses(bag) ==
    IF bag = <<>> THEN 0
    ELSE (IF Head(bag) = FALSE THEN 1 ELSE 0) + Presses(Tail(bag))

\* The password of GarageLock in state s once the presses of bag are entered
\* with the coordinates stored in s.
Entered(s, bag) ==
    IF LockDigit(s) = 0 THEN s.password
    ELSE s.password \o [j \in 1..Presses(bag) |-> LockDigit(s)]

\* C36: a transition of GarageLock that receives a pressed submit ends with an
\* empty password and inputNumber = 0; authorized is TRUE afterwards only if it
\* was TRUE before or the password, with the digits pressed in the same instant
\* appended, is "1234": a submit with another password leaves authorized as it
\* was.  lightOn of GarageDoor changes only in an instant at which GarageLock
\* emits an authorized that was TRUE before.
C36_WrongPasswordRejected ==
    [][/\ HasPress(gsim'.in.inSubmit)
            => LET base == IF gsim'.fired.lock = "conf"
                           THEN [garageLock EXCEPT !.authorized = FALSE]
                           ELSE garageLock
                   pw == Entered(base, gsim'.in.inInput)
               IN  /\ garageLock'.password = <<>>
                   /\ garageLock'.inputNumber = 0
                   /\ garageLock'.authorized = (base.authorized \/ pw = CurrentPassword)
                   /\ (pw # CurrentPassword
                         => garageLock'.authorized = base.authorized)
       /\ (garageDoor'.lightOn # garageDoor.lightOn
            => /\ garageLock.authorized = TRUE
               /\ gsim'.fired.lock \in {"int", "conf"})]_vars

C36_Witness ==
    /\ gsim.fired.lock = "ext"
    /\ gsim.in.inSubmit = <<FALSE>> /\ gsim.in.inInput = <<FALSE>>
    /\ gsim.in.inX = <<>> /\ gsim.in.inY = <<>>
    /\ LockDigit(garageLock) = 4
    /\ garageLock.authorized = FALSE /\ gsim.owed = 0
    /\ garageLock.password = <<>> /\ garageLock.inputNumber = 0
    /\ garageLock.currentStatus = LockText(0, 4, "       ")

====
